---- MODULE Spec2Model ----
(***************************************************************************)
(* TradingView -> Telegram relay (src/index.js).                           *)
(*                                                                         *)
(* One Node.js process runs a Telegraf bot (admin commands) and an express *)
(* server (POST /webhook).  Both share config.json, read with getConfig    *)
(* and written with saveConfig.  Command handlers are synchronous          *)
(* functions: they run from isAdmin to ctx.reply without suspending.  The  *)
(* webhook handler is an async function that suspends at every awaited     *)
(* bot.telegram.sendMessage.                                               *)
(***************************************************************************)
EXTENDS Naturals, Sequences, FiniteSets, TLC

VARIABLES
    ADMIN_CHAT_IDS,  \* the allow-list built at process start
    config,          \* contents of config.json
    updates,         \* command updates received and not yet handled
    nCmds,           \* number of command updates received so far
    last,            \* the most recently handled command and what it did
    reqs             \* webhook requests, by request number

vars == <<ADMIN_CHAT_IDS, config, updates, nCmds, last, reqs>>

-----------------------------------------------------------------------------
(* Bounds of the model *)

\* command updates received in one behaviour
MaxCmds == 2
\* webhook requests received in one behaviour
MaxReqs == 1

-----------------------------------------------------------------------------
(* Inputs *)

\* channel identifiers an admin types
ChannelIds == {"c1", "c2"}

\* ctx.from.id.toString() of the senders
UserIds == {"1", "7"}

\* process.env.ADMIN_CHAT_IDS after split(',').map(trim): the unset or empty
\* variable gives [''], which matches no sender
AdminLists == {<<"">>, <<"1">>}

\* ctx.message.text as a sequence of pieces: " " is one space character, any
\* other piece is a run of non-space characters
CommandTexts ==
    {<<"/on">>, <<"/off">>, <<"/list">>}
    \cup {<<c>> : c \in {"/addchannel", "/removechannel"}}
    \cup {<<c, " ", id>> : c \in {"/addchannel", "/removechannel"}, id \in ChannelIds}
    \cup {<<c, " ", " ", "c1">> : c \in {"/addchannel", "/removechannel"}}

\* the texts that change the configuration, and the one that lists it
CoreTexts ==
    {<<"/on">>, <<"/off">>, <<"/list">>}
    \cup {<<c, " ", id>> : c \in {"/addchannel", "/removechannel"}, id \in ChannelIds}

-----------------------------------------------------------------------------
(* Sequence helpers: Array.prototype.includes / filter *)

Range(s) == {s[i] : i \in DOMAIN s}

Includes(s, x) == \E i \in DOMAIN s : s[i] = x

FilterOut(s, x) == SelectSeq(s, LAMBDA y : y # x)

NoDup(s) == \A i, j \in DOMAIN s : i # j => s[i] # s[j]

\* every sequence over S without repetition, of length at most n
RECURSIVE NoDupSeqs(_, _)
NoDupSeqs(S, n) ==
    IF n = 0 THEN {<<>>}
    ELSE LET shorter == NoDupSeqs(S, n - 1)
             longer == {Append(s, x) : s \in shorter, x \in S}
         IN  shorter \cup {t \in longer : NoDup(t)}

\* String.prototype.split(' '): a new token starts after every space, so two
\* adjacent spaces, or a trailing space, give the empty token ""
RECURSIVE SplitFrom(_, _, _, _)
SplitFrom(text, i, cur, acc) ==
    IF i > Len(text) THEN Append(acc, cur)
    ELSE IF text[i] = " " THEN SplitFrom(text, i + 1, "", Append(acc, cur))
    ELSE SplitFrom(text, i + 1, cur \o text[i], acc)

Split(text) == SplitFrom(text, 1, "", <<>>)

-----------------------------------------------------------------------------
(* ConfigStore *)

Configs == [enabled : BOOLEAN, channels : NoDupSeqs(ChannelIds, Cardinality(ChannelIds))]

\* the result of a handler's load-modify-save: the configuration to write, or
\* none when the handler does not call saveConfig
NoSave == [save |-> FALSE]
Save(c) == [save |-> TRUE, cfg |-> c]

-----------------------------------------------------------------------------
(* AdminGate *)

\* isAdmin letting every sender through
isAdminAllowAll(userId) == TRUE

\* isAdmin: ADMIN_CHAT_IDS.includes(userId)
isAdmin(userId) == Includes(ADMIN_CHAT_IDS, userId)

-----------------------------------------------------------------------------
(* CommandRouter: each handler as a function of the loaded configuration.
   A handler yields the reply it sends and the configuration it saves. *)

CmdOn(cfg) ==
    [reply |-> "on", write |-> Save([cfg EXCEPT !.enabled = TRUE])]

\* off forgetting the channels
CmdOffClearing(cfg) ==
    [reply |-> "off", write |-> Save([enabled |-> FALSE, channels |-> <<>>])]

CmdOff(cfg) ==
    [reply |-> "off", write |-> Save([cfg EXCEPT !.enabled = FALSE])]

\* addchannel without the includes test of line 69
CmdAddChannelNoCheck(cfg, channelId) ==
    [reply |-> "added",
     write |-> Save([cfg EXCEPT !.channels = Append(cfg.channels, channelId)])]

\* addchannel with unshift in place of push
CmdAddChannelUnshift(cfg, channelId) ==
    IF ~Includes(cfg.channels, channelId)
    THEN [reply |-> "added",
          write |-> Save([cfg EXCEPT !.channels = <<channelId>> \o cfg.channels])]
    ELSE [reply |-> "already", write |-> NoSave]

\* addchannel saving a list that holds the new identifier alone
CmdAddChannelOverwrite(cfg, channelId) ==
    IF ~Includes(cfg.channels, channelId)
    THEN [reply |-> "added",
          write |-> Save([cfg EXCEPT !.channels = <<channelId>>])]
    ELSE [reply |-> "already", write |-> NoSave]

CmdAddChannel(cfg, channelId) ==
    IF ~Includes(cfg.channels, channelId)
    THEN [reply |-> "added",
          write |-> Save([cfg EXCEPT !.channels = Append(cfg.channels, channelId)])]
    ELSE [reply |-> "already", write |-> NoSave]

\* removechannel with the filter test inverted (id === channelId)
CmdRemoveChannelInverted(cfg, channelId) ==
    [reply |-> "removed",
     write |-> Save([cfg EXCEPT !.channels = SelectSeq(cfg.channels, LAMBDA y : y = channelId)])]

CmdRemoveChannel(cfg, channelId) ==
    [reply |-> "removed",
     write |-> Save([cfg EXCEPT !.channels = FilterOut(cfg.channels, channelId)])]

CmdList(cfg) ==
    [reply |-> "list", write |-> NoSave]

\* the command a text invokes: its first token
CommandOf(text) == Split(text)[1]

\* addchannel and removechannel return the usage hint before getConfig
NeedsArg(text) == CommandOf(text) \in {"/addchannel", "/removechannel"}
MissingArg(text) == NeedsArg(text) /\ Len(Split(text)) < 2

Handler(text, cfg) ==
    LET args == Split(text) IN
    CASE args[1] = "/on" -> CmdOn(cfg)
      [] args[1] = "/off" -> CmdOff(cfg)
      [] args[1] = "/addchannel" -> CmdAddChannel(cfg, args[2])
      [] args[1] = "/removechannel" -> CmdRemoveChannel(cfg, args[2])
      [] args[1] = "/list" -> CmdList(cfg)

-----------------------------------------------------------------------------
(* Inbound payload: req.body as body-parser leaves it.

   A JSON value is a tagged record.  Strings are sequences of characters.
   An application/json request gives the decoded object or array; a
   text/plain request gives the text, which the handler passes to JSON.parse;
   any other request gives the empty object. *)

Undefined == [t |-> "undefined"]
Null == [t |-> "null"]
Num(n) == [t |-> "num", n |-> n]
Str(s) == [t |-> "str", s |-> s]
Arr(n) == [t |-> "arr", len |-> n]
Obj(f) == [t |-> "obj", f |-> f]
ParseError == [t |-> "SyntaxError"]
\* a text body, named by what JSON.parse makes of it
Text(parsed) == [t |-> "text", parsed |-> parsed]

ObjectBodies ==
    { Obj(<<>>),
      Obj(("ticker" :> Str(<<"B", "T", "C">>)) @@ ("direction" :> Str(<<"b", "u", "y">>))),
      Obj("symbol" :> Str(<<"E", "T", "H">>)),
      Obj("sl" :> Str(<<"6">>)),
      Obj("ticker" :> Str(<<>>)),
      Obj("direction" :> Num(5)),
      Obj("direction" :> Str(<<"S", "e", "l", "l">>)),
      Obj("direction" :> Str(<<"s", "e", "l", "l", "b", "u", "y">>)),
      Obj("direction" :> Str(<<"x", ".", "l">>)) }

Bodies ==
    ObjectBodies
    \cup {Arr(1)}
    \cup {Text(ParseError), Text(Null), Text(Num(5)), Text(Str(<<"a">>)),
          Text(Obj("ticker" :> Str(<<"B", "T", "C">>)))}

\* the commands that disable the bot and remove a channel
FairTexts == { <<"/off">>, <<"/removechannel", " ", "c2">> }

\* one body for each way through the handler: formatted, raw only, TypeError
CoreBodies ==
    { Obj(("ticker" :> Str(<<"B", "T", "C">>)) @@ ("direction" :> Str(<<"b", "u", "y">>))),
      Text(ParseError),
      Obj("direction" :> Num(5)) }

\* JavaScript truthiness
Truthy(v) ==
    CASE v.t = "str" -> Len(v.s) > 0
      [] v.t = "num" -> v.n # 0
      [] v.t \in {"obj", "arr"} -> TRUE
      [] OTHER -> FALSE

\* data.key: undefined on a missing key and on a value that is no object
Field(data, key) ==
    IF data.t = "obj" /\ key \in DOMAIN data.f THEN data.f[key] ELSE Undefined

\* Object.keys(data).length
NumKeys(data) ==
    CASE data.t = "obj" -> Cardinality(DOMAIN data.f)
      [] data.t = "arr" -> data.len
      [] data.t = "str" -> Len(data.s)
      [] OTHER -> 0

\* lines 146-159: the mapping the handler goes on with, if any
Decode(body) ==
    IF body.t = "text"
    THEN IF body.parsed = ParseError
         THEN [parseSuccess |-> FALSE, data |-> Obj(<<>>)]
         ELSE [parseSuccess |-> TRUE, data |-> body.parsed]
    ELSE IF body.t \in {"obj", "arr"}
         THEN [parseSuccess |-> TRUE, data |-> body]
         ELSE [parseSuccess |-> FALSE, data |-> Obj(<<>>)]

\* Interpret with the identifying fields tested for presence, not for truth
InterpretKeyPresent(body) ==
    LET d == Decode(body) IN
    IF ~d.parseSuccess THEN "skip"
    ELSE IF d.data.t = "null" THEN "throw"
    ELSE IF NumKeys(d.data) = 0 THEN "skip"
    ELSE IF Truthy(Field(d.data, "direction")) /\ Field(d.data, "direction").t # "str"
         THEN "throw"
    ELSE IF \E k \in {"ticker", "direction", "symbol"} : Field(d.data, k) # Undefined
         THEN "format"
    ELSE "skip"

\* lines 161-194: what the handler does after the raw broadcast.
\*   "throw":  a TypeError reaches the catch block (Object.keys(null), or
\*             toUpperCase on a direction that is no string)
\*   "format": the formatted message is broadcast
\*   "skip":   no formatted message
Interpret(body) ==
    LET d == Decode(body) IN
    IF ~d.parseSuccess THEN "skip"
    ELSE IF d.data.t = "null" THEN "throw"
    ELSE IF NumKeys(d.data) = 0 THEN "skip"
    ELSE IF Truthy(Field(d.data, "direction")) /\ Field(d.data, "direction").t # "str"
         THEN "throw"
    ELSE IF \/ Truthy(Field(d.data, "ticker"))
            \/ Truthy(Field(d.data, "direction"))
            \/ Truthy(Field(d.data, "symbol"))
         THEN "format"
    ELSE "skip"

\* the letters String.prototype.toUpperCase changes, among those the
\* direction values are written with
LowerCase == <<"a", "b", "e", "g", "i", "l", "n", "s", "u", "x", "y">>
UpperCase == <<"A", "B", "E", "G", "I", "L", "N", "S", "U", "X", "Y">>

\* s.toUpperCase()
toUpperCase(s) ==
    [k \in DOMAIN s |->
        IF \E j \in DOMAIN LowerCase : LowerCase[j] = s[k]
        THEN UpperCase[CHOOSE j \in DOMAIN LowerCase : LowerCase[j] = s[k]]
        ELSE s[k]]

\* s.includes(sub) on strings
StrIncludes(s, sub) ==
    \E k \in 1..Len(s) :
        /\ k + Len(sub) <= Len(s) + 1
        /\ SubSeq(s, k, k + Len(sub) - 1) = sub

\* lines 165-170 with SELL looked for before BUY
directionSellFirst(data) ==
    LET d == Field(data, "direction") IN
    IF ~Truthy(d) THEN <<"S", "i", "g", "n", "a", "l">>
    ELSE IF StrIncludes(toUpperCase(d.s), <<"S", "E", "L", "L">>) THEN <<"S", "e", "l", "l">>
    ELSE IF StrIncludes(toUpperCase(d.s), <<"B", "U", "Y">>) THEN <<"B", "u", "y">>
    ELSE d.s

\* lines 165-170: the variable direction
direction(data) ==
    LET d == Field(data, "direction") IN
    IF ~Truthy(d) THEN <<"S", "i", "g", "n", "a", "l">>
    ELSE IF StrIncludes(toUpperCase(d.s), <<"B", "U", "Y">>) THEN <<"B", "u", "y">>
    ELSE IF StrIncludes(toUpperCase(d.s), <<"S", "E", "L", "L">>) THEN <<"S", "e", "l", "l">>
    ELSE d.s

\* line 182: ${direction.toUpperCase()} in the header of the message
Shown(data) == toUpperCase(direction(data))

\* the header built from each payload the handler can go on with
Headers == [data \in {Decode(b).data : b \in Bodies} |-> Shown(data)]

-----------------------------------------------------------------------------
(* WebhookIngestor: the handler between two suspensions, as functions of
   the request record.

   st    "raw" | "fmt" | "err": suspended at the await of the send last
         logged, in that loop; "done": the response is sent
   cfg   the configuration loaded at line 121
   errCh the channels of the configuration loaded in the catch block
   i     index of the send in flight in its loop
   log   the sends issued so far, in order
   pending  the positions in log of the sends that have not settled yet
   fails how many of them the transport rejected
   exc   the exception that entered the catch block, if any
   reloaded  the getConfig of the catch block returned
   shown the direction as the formatted message shows it, once built *)

R200Disabled == [status |-> 200, success |-> TRUE, message |-> "disabled", count |-> 0]
R200Sent(n) == [status |-> 200, success |-> TRUE, message |-> "sent", count |-> n]
R500 == [status |-> 500, success |-> FALSE, message |-> "Internal Error", count |-> 0]
NoResponse == [status |-> 0, success |-> FALSE, message |-> "", count |-> 0]

NoConfig == [enabled |-> FALSE, channels |-> <<>>]

NewRequest(body) ==
    [st |-> "new", body |-> body, loaded |-> FALSE, cfg |-> NoConfig, errCh |-> <<>>,
     i |-> 0, log |-> <<>>, pending |-> {}, fails |-> 0, exc |-> "none",
     reloaded |-> FALSE, shown |-> <<>>, resp |-> NoResponse]

Respond(q, resp) == [q EXCEPT !.st = "done", !.i = 0, !.resp = resp]

\* StartLoop issuing the send to every channel of chs before it suspends
StartLoopAll(q, kind, chs, after) ==
    IF Len(chs) = 0 THEN after
    ELSE [q EXCEPT !.st = kind, !.i = 1,
                   !.log = @ \o [k \in DOMAIN chs |-> [kind |-> kind, ch |-> chs[k]]],
                   !.pending = @ \cup {Len(q.log) + k : k \in DOMAIN chs}]

\* for (const channelId of chs) { await sendMessage(...) }: issue the first
\* send and suspend, or go on at once when chs is empty
StartLoop(q, kind, chs, after) ==
    IF Len(chs) = 0 THEN after
    ELSE [q EXCEPT !.st = kind, !.i = 1,
                   !.log = Append(@, [kind |-> kind, ch |-> chs[1]]),
                   !.pending = @ \cup {Len(q.log) + 1}]

\* lines 197-211: the catch block
Catch(q, exc, reloadOk, cur) ==
    LET q1 == [q EXCEPT !.exc = exc] IN
    IF ~reloadOk THEN Respond(q1, R500)
    ELSE LET q2 == [q1 EXCEPT !.errCh = cur.channels, !.reloaded = TRUE]
         IN  StartLoop(q2, "err", cur.channels, Respond(q2, R500))

\* lines 196: the 200 response
Sent(q) == Respond(q, R200Sent(Len(q.cfg.channels)))

\* lines 145-196: after the raw loop
AfterRaw(q, reloadOk, cur) ==
    LET what == Interpret(q.body) IN
    CASE what = "throw" -> Catch(q, "TypeError", reloadOk, cur)
      [] what = "format" ->
            LET q1 == [q EXCEPT !.shown = Headers[Decode(q.body).data]]
            IN  StartLoop(q1, "fmt", q.cfg.channels, Sent(q1))
      [] OTHER -> Sent(q)

\* Arrive without the enabled check of lines 132-135
ArriveIgnoringEnabled(body, loadOk, reloadOk, cur) ==
    LET q == NewRequest(body) IN
    IF ~loadOk THEN Catch(q, "ConfigUnreadable", reloadOk, cur)
    ELSE LET q1 == [q EXCEPT !.loaded = TRUE, !.cfg = cur] IN
         StartLoop(q1, "raw", cur.channels, AfterRaw(q1, reloadOk, cur))

\* lines 120-143: from the request's arrival to its first suspension
Arrive(body, loadOk, reloadOk, cur) ==
    LET q == NewRequest(body) IN
    IF ~loadOk THEN Catch(q, "ConfigUnreadable", reloadOk, cur)
    ELSE LET q1 == [q EXCEPT !.loaded = TRUE, !.cfg = cur] IN
         IF ~cur.enabled THEN Respond(q1, R200Disabled)
         ELSE StartLoop(q1, "raw", cur.channels, AfterRaw(q1, reloadOk, cur))

\* the channels of the loop the request is suspended in
LoopChannels(q) == IF q.st = "err" THEN q.errCh ELSE q.cfg.channels

\* Resume with a rejected send ending its loop (a break in the .catch)
ResumeBreakOnFailure(q, sendOk, reloadOk, cur) ==
    LET q1 == [q EXCEPT !.fails = IF sendOk THEN @ ELSE @ + 1,
                        !.pending = @ \ {Len(q.log)}]
        chs == LoopChannels(q)
    IN  IF sendOk /\ q.i < Len(chs)
        THEN [q1 EXCEPT !.i = q.i + 1,
                        !.log = Append(@, [kind |-> q.st, ch |-> chs[q.i + 1]]),
                        !.pending = @ \cup {Len(q.log) + 1}]
        ELSE CASE q.st = "raw" -> AfterRaw(q1, reloadOk, cur)
               [] q.st = "fmt" -> Sent(q1)
               [] q.st = "err" -> Respond(q1, R500)

\* Resume with no .catch on the raw and formatted sends: the rejection is
\* thrown at the await and reaches the catch block
ResumeThrowOnFailure(q, sendOk, reloadOk, cur) ==
    LET q1 == [q EXCEPT !.fails = IF sendOk THEN @ ELSE @ + 1,
                        !.pending = @ \ {Len(q.log)}]
        chs == LoopChannels(q)
    IN  IF ~sendOk /\ q.st \in {"raw", "fmt"}
        THEN Catch(q1, "TransportFailure", reloadOk, cur)
        ELSE IF q.i < Len(chs)
        THEN [q1 EXCEPT !.i = q.i + 1,
                        !.log = Append(@, [kind |-> q.st, ch |-> chs[q.i + 1]]),
                        !.pending = @ \cup {Len(q.log) + 1}]
        ELSE CASE q.st = "raw" -> AfterRaw(q1, reloadOk, cur)
               [] q.st = "fmt" -> Sent(q1)
               [] q.st = "err" -> Respond(q1, R500)

\* Resume with the last formatted send issued and not awaited
ResumeNoAwaitLast(q, sendOk, reloadOk, cur) ==
    LET q1 == [q EXCEPT !.fails = IF sendOk THEN @ ELSE @ + 1,
                        !.pending = @ \ {Len(q.log)}]
        chs == LoopChannels(q)
    IN  IF q.i < Len(chs)
        THEN LET q2 == [q1 EXCEPT !.i = q.i + 1,
                                  !.log = Append(@, [kind |-> q.st, ch |-> chs[q.i + 1]]),
                                  !.pending = @ \cup {Len(q.log) + 1}]
             IN  IF q.st = "fmt" /\ q.i + 1 = Len(chs) THEN Sent(q2) ELSE q2
        ELSE CASE q.st = "raw" -> AfterRaw(q1, reloadOk, cur)
               [] q.st = "fmt" -> Sent(q1)
               [] q.st = "err" -> Respond(q1, R500)

\* Resume with a rejected error notice thrown at the await: the inner
\* catch of line 208 ends the error loop
ResumeErrThrow(q, sendOk, reloadOk, cur) ==
    LET q1 == [q EXCEPT !.fails = IF sendOk THEN @ ELSE @ + 1,
                        !.pending = @ \ {Len(q.log)}]
        chs == LoopChannels(q)
    IN  IF ~sendOk /\ q.st = "err"
        THEN Respond(q1, R500)
        ELSE IF q.i < Len(chs)
        THEN [q1 EXCEPT !.i = q.i + 1,
                        !.log = Append(@, [kind |-> q.st, ch |-> chs[q.i + 1]]),
                        !.pending = @ \cup {Len(q.log) + 1}]
        ELSE CASE q.st = "raw" -> AfterRaw(q1, reloadOk, cur)
               [] q.st = "fmt" -> Sent(q1)
               [] q.st = "err" -> Respond(q1, R500)

\* Resume with the response after the formatted loop left out
ResumeNoResponse(q, sendOk, reloadOk, cur) ==
    LET q1 == [q EXCEPT !.fails = IF sendOk THEN @ ELSE @ + 1,
                        !.pending = @ \ {Len(q.log)}]
        chs == LoopChannels(q)
    IN  IF q.i < Len(chs)
        THEN [q1 EXCEPT !.i = q.i + 1,
                        !.log = Append(@, [kind |-> q.st, ch |-> chs[q.i + 1]]),
                        !.pending = @ \cup {Len(q.log) + 1}]
        ELSE CASE q.st = "raw" -> AfterRaw(q1, reloadOk, cur)
               [] q.st = "fmt" -> [q1 EXCEPT !.st = "end", !.i = 0]
               [] q.st = "err" -> Respond(q1, R500)

\* Resume with the raw and formatted loops running over the channels of the
\* configuration as it is when the send settles
ResumeCurrentChannels(q, sendOk, reloadOk, cur) ==
    LET q1 == [q EXCEPT !.fails = IF sendOk THEN @ ELSE @ + 1,
                        !.pending = @ \ {Len(q.log)}]
        chs == IF q.st = "err" THEN q.errCh ELSE cur.channels
    IN  IF q.i < Len(chs)
        THEN [q1 EXCEPT !.i = q.i + 1,
                        !.log = Append(@, [kind |-> q.st, ch |-> chs[q.i + 1]]),
                        !.pending = @ \cup {Len(q.log) + 1}]
        ELSE CASE q.st = "raw" -> AfterRaw(q1, reloadOk, cur)
               [] q.st = "fmt" -> Sent(q1)
               [] q.st = "err" -> Respond(q1, R500)

\* the awaited send settles (sendOk: resolved; otherwise rejected, and the
\* .catch on the send swallows the rejection); the loop goes on
Resume(q, sendOk, reloadOk, cur) ==
    LET q1 == [q EXCEPT !.fails = IF sendOk THEN @ ELSE @ + 1,
                        !.pending = @ \ {Len(q.log)}]
        chs == LoopChannels(q)
    IN  IF q.i < Len(chs)
        THEN [q1 EXCEPT !.i = q.i + 1,
                        !.log = Append(@, [kind |-> q.st, ch |-> chs[q.i + 1]]),
                        !.pending = @ \cup {Len(q.log) + 1}]
        ELSE CASE q.st = "raw" -> AfterRaw(q1, reloadOk, cur)
               [] q.st = "fmt" -> Sent(q1)
               [] q.st = "err" -> Respond(q1, R500)

-----------------------------------------------------------------------------
(* The earlier handler of src/unnamed/part_000: no raw broadcast, no error
   notice, and one formatted broadcast that issues every send before it
   awaits them all.  st = "all": suspended at await Promise.all. *)

\* part_000 lines 111-120: data.direction.toUpperCase() on a truthy
\* direction that is no string
OldThrows(body) ==
    Truthy(Field(body, "direction")) /\ Field(body, "direction").t # "str"

\* part_000 lines 143-146: the catch block
OldCatch(q, exc) == Respond([q EXCEPT !.exc = exc], R500)

\* part_000 lines 100-139: from the request's arrival to await Promise.all
OldArrive(body, loadOk, cur) ==
    LET q == NewRequest(body)
        n == Len(cur.channels)
    IN  IF ~loadOk THEN OldCatch(q, "ConfigUnreadable")
        ELSE LET q1 == [q EXCEPT !.loaded = TRUE, !.cfg = cur] IN
             IF ~cur.enabled THEN Respond(q1, R200Disabled)
             ELSE IF OldThrows(body) THEN OldCatch(q1, "TypeError")
             ELSE LET q2 == [q1 EXCEPT
                               !.st = "all",
                               !.shown = Headers[body],
                               !.log = [k \in 1..n |-> [kind |-> "fmt", ch |-> cur.channels[k]]],
                               !.pending = 1..n]
                  IN  IF n = 0 THEN Sent(q2) ELSE q2

\* part_000 lines 134-141: send k settles; when it was the last one pending
\* Promise.all resolves and the handler responds
OldResume(q, k, sendOk) ==
    LET q1 == [q EXCEPT !.fails = IF sendOk THEN @ ELSE @ + 1,
                        !.pending = @ \ {k}]
    IN  IF q1.pending = {} THEN Sent(q1) ELSE q1

-----------------------------------------------------------------------------
(* State *)

NoCmd ==
    [from |-> "", text |-> <<>>, reply |-> "none", invoked |-> FALSE, threw |-> "none",
     before |-> NoConfig]

Init ==
    /\ ADMIN_CHAT_IDS \in AdminLists
    /\ config \in Configs
    /\ updates = {}
    /\ nCmds = 0
    /\ last = NoCmd
    /\ reqs = <<>>

\* Telegraf receives a command update from the chat transport
ReceiveCommand(users, texts) ==
    /\ nCmds < MaxCmds
    /\ \E from \in users, text \in texts :
          updates' = updates \cup {[id |-> nCmds + 1, from |-> from, text |-> text]}
    /\ nCmds' = nCmds + 1
    /\ UNCHANGED <<ADMIN_CHAT_IDS, config, last, reqs>>

\* what handling update u came to: the reply sent to the sender ("none": no
\* ctx.reply was reached), whether isAdmin called the handler, the exception
\* the handler ended by, and config.json as it was when the update was handled
Done(u, reply, invoked, threw) ==
    [from |-> u.from, text |-> u.text, reply |-> reply, invoked |-> invoked,
     threw |-> threw, before |-> config]

\* isAdmin rejects the sender: the rejection is the reply, next() is not called
HandleUnauthorized(u) ==
    /\ ~isAdmin(u.from)
    /\ last' = Done(u, "unauthorized", FALSE, "none")
    /\ UNCHANGED config

\* HandleUsage with the argument tested after args[1] was stored
HandleUsageAfterSave(u) ==
    /\ isAdmin(u.from)
    /\ MissingArg(u.text)
    /\ last' = Done(u, "usage", TRUE, "none")
    /\ config' = [config EXCEPT !.channels = Append(@, "undefined")]

\* addchannel / removechannel without an argument: usage hint, no getConfig
HandleUsage(u) ==
    /\ isAdmin(u.from)
    /\ MissingArg(u.text)
    /\ last' = Done(u, "usage", TRUE, "none")
    /\ UNCHANGED config

\* getConfig throws (file missing or not JSON): the handler ends by the
\* exception, before any saveConfig or ctx.reply
HandleLoadFails(u) ==
    /\ isAdmin(u.from)
    /\ ~MissingArg(u.text)
    /\ last' = Done(u, "none", TRUE, "ConfigUnreadable")
    /\ UNCHANGED config

\* getConfig succeeds; the handler runs on the loaded configuration; when it
\* calls saveConfig the write succeeds, or throws before ctx.reply
HandleLoaded(u) ==
    /\ isAdmin(u.from)
    /\ ~MissingArg(u.text)
    /\ LET h == Handler(u.text, config) IN
         IF h.write.save
         THEN \E writeOk \in BOOLEAN :
                 IF writeOk
                 THEN /\ config' = h.write.cfg
                      /\ last' = Done(u, h.reply, TRUE, "none")
                 ELSE /\ UNCHANGED config
                      /\ last' = Done(u, "none", TRUE, "ConfigUnwritable")
         ELSE /\ UNCHANGED config
              /\ last' = Done(u, h.reply, TRUE, "none")

\* one command update runs through bot.command(name, isAdmin, handler); the
\* middleware and the handler are synchronous, so this is one step
HandleCommand ==
    \E u \in updates :
        /\ updates' = updates \ {u}
        /\ \/ HandleUnauthorized(u)
           \/ HandleUsage(u)
           \/ HandleLoadFails(u)
           \/ HandleLoaded(u)
        /\ UNCHANGED <<ADMIN_CHAT_IDS, nCmds, reqs>>

\* express calls the /webhook handler, which runs to its first suspension
WebhookArrives(bodies) ==
    /\ Len(reqs) < MaxReqs
    /\ \E body \in bodies, loadOk \in BOOLEAN, reloadOk \in BOOLEAN :
          reqs' = Append(reqs, Arrive(body, loadOk, reloadOk, config))
    /\ UNCHANGED <<ADMIN_CHAT_IDS, config, updates, nCmds, last>>

\* the send request r awaits settles and the handler runs to its next
\* suspension or to its response
Settle(r) ==
    /\ r \in DOMAIN reqs
    /\ reqs[r].st \in {"raw", "fmt", "err"}
    /\ UNCHANGED <<ADMIN_CHAT_IDS, config, updates, nCmds, last>>
    /\ \E sendOk \in BOOLEAN, reloadOk \in BOOLEAN :
          reqs' = [reqs EXCEPT ![r] = Resume(@, sendOk, reloadOk, config)]

SendSettles == \E r \in DOMAIN reqs : Settle(r)

\* express calls the /webhook handler of part_000; express.json gives it an
\* object or an array
OldWebhookArrives(bodies) ==
    /\ Len(reqs) < MaxReqs
    /\ \E body \in bodies, loadOk \in BOOLEAN :
          reqs' = Append(reqs, OldArrive(body, loadOk, config))
    /\ UNCHANGED <<ADMIN_CHAT_IDS, config, updates, nCmds, last>>

\* one of the sends a request of part_000 awaits settles
OldSendSettles ==
    \E r \in DOMAIN reqs :
        /\ reqs[r].st = "all"
        /\ \E k \in reqs[r].pending, sendOk \in BOOLEAN :
              reqs' = [reqs EXCEPT ![r] = OldResume(@, k, sendOk)]
        /\ UNCHANGED <<ADMIN_CHAT_IDS, config, updates, nCmds, last>>

\* the command side alone, on every command text
NextCmd ==
    \/ ReceiveCommand(UserIds, CommandTexts)
    \/ HandleCommand

\* the webhook side alone, on every body
NextHook ==
    \/ WebhookArrives(Bodies)
    \/ SendSettles

\* both sides interleaved, on the commands with a well-formed text and the
\* bodies that take each path of the handler
Next ==
    \/ ReceiveCommand(UserIds, CoreTexts)
    \/ HandleCommand
    \/ WebhookArrives(CoreBodies)
    \/ SendSettles

\* the webhook handlers of both files
NextHooks ==
    \/ WebhookArrives(Bodies)
    \/ SendSettles
    \/ OldWebhookArrives(ObjectBodies \cup {Arr(1)})
    \/ OldSendSettles

SpecCmd == Init /\ [][NextCmd]_vars

SpecHooks == Init /\ [][NextHooks]_vars

SpecHook == Init /\ [][NextHook]_vars

Spec == Init /\ [][Next]_vars

\* both sides interleaved, on the commands that take away what a request
\* in flight has loaded
NextFair ==
    \/ ReceiveCommand({"1"}, FairTexts)
    \/ HandleCommand
    \/ WebhookArrives(CoreBodies)
    \/ SendSettles

\* every send in flight settles in the end
FairSpec == Init /\ [][NextFair]_vars /\ \A r \in 1..MaxReqs : WF_vars(Settle(r))

-----------------------------------------------------------------------------
(* Properties of the webhook handler *)

\* the channels a request sent a message of one kind to, in the order sent
SendsOf(q, kind) ==
    LET sel == SelectSeq(q.log, LAMBDA e : e.kind = kind)
    IN  [k \in DOMAIN sel |-> sel[k].ch]

IsPrefix(s, t) == Len(s) <= Len(t) /\ \A k \in DOMAIN s : s[k] = t[k]

\* the request loaded a configuration with enabled = true
Enabled(q) == q.loaded /\ q.cfg.enabled

\* C1: a webhook request whose getConfig at line 121 returned a configuration
\* with enabled = false issues no send of any kind (raw, formatted or error
\* notice) and is answered 200 "Bot is disabled".
C1_DisabledSendsNothing ==
    \A r \in DOMAIN reqs :
        LET q == reqs[r] IN
        (q.loaded /\ ~q.cfg.enabled) =>
            /\ q.log = <<>>
            /\ q.st = "done"
            /\ q.resp = R200Disabled

\* a disabled configuration with two channels received a payload that would
\* otherwise be formatted
C1_Witness ==
    \E r \in DOMAIN reqs :
        /\ reqs[r].loaded /\ ~reqs[r].cfg.enabled
        /\ Len(reqs[r].cfg.channels) = 2
        /\ reqs[r].body.t = "obj" /\ "ticker" \in DOMAIN reqs[r].body.f
        /\ reqs[r].st = "done"

\* C2: with enabled = true, the raw-debug sends of a request go to the
\* configured channels in order, one each: while the raw loop runs they are
\* the channels up to the one in flight, and once it is over they are exactly
\* the channel list, whatever the body and whichever sends failed.
C2_OneRawSendPerChannel ==
    \A r \in DOMAIN reqs :
        LET q == reqs[r]
            raw == SendsOf(q, "raw")
        IN  Enabled(q) =>
                /\ IsPrefix(raw, q.cfg.channels)
                /\ q.st = "raw" => Len(raw) = q.i
                /\ q.st # "raw" => raw = q.cfg.channels

\* an unparseable text body went to two channels and a send failed
C2_Witness ==
    \E r \in DOMAIN reqs :
        /\ Enabled(reqs[r])
        /\ reqs[r].st = "done"
        /\ reqs[r].body = Text(ParseError)
        /\ Len(reqs[r].cfg.channels) = 2
        /\ reqs[r].fails > 0
        /\ SendsOf(reqs[r], "raw") = reqs[r].cfg.channels

\* the mapping the body stands for, if it is one
IsMapping(body) ==
    \/ body.t = "obj"
    \/ body.t = "text" /\ body.parsed.t = "obj"
MappingOf(body) == IF body.t = "obj" THEN body.f ELSE body.parsed.f

IdFields == {"ticker", "direction", "symbol"}

\* the payload contains one of the identifying fields
HasIdField(body) ==
    IsMapping(body) /\ \E k \in IdFields : k \in DOMAIN MappingOf(body)

\* the value of an identifying field is one JavaScript takes for true
HasTruthyIdField(body) ==
    /\ IsMapping(body)
    /\ \E k \in IdFields :
          /\ k \in DOMAIN MappingOf(body)
          /\ LET v == MappingOf(body)[k] IN
               \/ v.t = "str" /\ v.s # <<>>
               \/ v.t = "num" /\ v.n # 0
               \/ v.t \in {"obj", "arr"}

\* direction is present with a true value that is no string
DirectionNotText(body) ==
    /\ IsMapping(body)
    /\ "direction" \in DOMAIN MappingOf(body)
    /\ LET v == MappingOf(body)["direction"] IN
         \/ v.t = "num" /\ v.n # 0
         \/ v.t \in {"obj", "arr"}

\* C3 as stated: an answered request with enabled = true has sent one
\* formatted message per channel if its payload contains ticker, direction or
\* symbol, and none if it lacks all three.
C3_FormattedIffIdFieldPresent ==
    \A r \in DOMAIN reqs :
        LET q == reqs[r] IN
        (Enabled(q) /\ q.st = "done") =>
            SendsOf(q, "fmt") = IF HasIdField(q.body) THEN q.cfg.channels ELSE <<>>

\* C3 amended: an answered request with enabled = true has sent one formatted
\* message per channel if its payload is a mapping in which ticker, direction
\* or symbol has a true value and direction, if true, is a string; it has sent
\* no formatted message otherwise; and when direction is a true value that is
\* no string, building the message throws and the request is answered 500.
C3_FormattedIffIdFieldTruthy ==
    \A r \in DOMAIN reqs :
        LET q == reqs[r] IN
        (Enabled(q) /\ q.st = "done") =>
            /\ SendsOf(q, "fmt") =
                 IF HasTruthyIdField(q.body) /\ ~DirectionNotText(q.body)
                 THEN q.cfg.channels ELSE <<>>
            /\ DirectionNotText(q.body) => q.resp = R500

\* a request with an empty ticker was answered after its raw sends, and sent
\* nothing formatted
C3_Witness ==
    \E r \in DOMAIN reqs :
        /\ Enabled(reqs[r]) /\ reqs[r].st = "done"
        /\ reqs[r].body = Obj("ticker" :> Str(<<>>))
        /\ Len(reqs[r].cfg.channels) = 2
        /\ SendsOf(reqs[r], "fmt") = <<>>
        /\ reqs[r].resp = R200Sent(2)

\* C8: the outcome of a request with enabled = true does not depend on which
\* sends failed.  Once answered, its raw-debug sends went to every channel,
\* its formatted sends to every channel if a formatted message was built, and
\* the response is 200 with the number of configured channels, unless the
\* payload itself made the handler throw.
C8_FailuresIsolated ==
    \A r \in DOMAIN reqs :
        LET q == reqs[r] IN
        (Enabled(q) /\ q.st = "done") =>
            /\ SendsOf(q, "raw") = q.cfg.channels
            /\ SendsOf(q, "fmt") \in {<<>>, q.cfg.channels}
            /\ Interpret(q.body) = "format" => SendsOf(q, "fmt") = q.cfg.channels
            /\ Interpret(q.body) # "throw" =>
                   /\ q.resp = R200Sent(Len(q.cfg.channels))
                   /\ q.exc = "none"

\* all four sends of a formatted request to two channels failed, and it was
\* answered 200 with count 2
C8_Witness ==
    \E r \in DOMAIN reqs :
        /\ Enabled(reqs[r]) /\ reqs[r].st = "done"
        /\ Len(reqs[r].cfg.channels) = 2
        /\ Len(reqs[r].log) = 4
        /\ reqs[r].fails = 4
        /\ reqs[r].resp = R200Sent(2)

-----------------------------------------------------------------------------
(* Properties of the command handlers, stated on the command handled last *)

\* the sender is not on the allow-list
NotOnAllowList(userId) == \A k \in DOMAIN ADMIN_CHAT_IDS : ADMIN_CHAT_IDS[k] # userId

\* c is a handled command named name, sent by an admin with an argument
AdminCommandWithArg(c, name) ==
    /\ c # NoCmd
    /\ ~NotOnAllowList(c.from)
    /\ Split(c.text)[1] = name
    /\ Len(Split(c.text)) >= 2

ArgOf(c) == Split(c.text)[2]

\* C4: a command from a sender who is not on the allow-list is answered by
\* the rejection, its handler is not called, and config.json is as it was.
C4_UnauthorizedChangesNothing ==
    (last # NoCmd /\ NotOnAllowList(last.from)) =>
        /\ last.reply = "unauthorized"
        /\ ~last.invoked
        /\ config = last.before

\* with the allow-list of an unset ADMIN_CHAT_IDS, /addchannel c1 was rejected
C4_Witness ==
    /\ ADMIN_CHAT_IDS = <<"">>
    /\ last.text = <<"/addchannel", " ", "c1">>
    /\ last.reply = "unauthorized"
    /\ ~Includes(config.channels, "c1")

\* C5: an authorized addchannel for an identifier that is already in channels
\* leaves channels as they were and replies "already in list" (when
\* config.json could be read).
C5_AddIsIdempotent ==
    (AdminCommandWithArg(last, "/addchannel") /\ Includes(last.before.channels, ArgOf(last))) =>
        /\ config.channels = last.before.channels
        /\ last.reply = "already" \/ last.threw = "ConfigUnreadable"

\* /addchannel c2 was answered "already in list"
C5_Witness ==
    /\ AdminCommandWithArg(last, "/addchannel")
    /\ ArgOf(last) = "c2"
    /\ Includes(last.before.channels, "c2")
    /\ last.reply = "already"

\* C6: an authorized removechannel for an identifier that is not in channels
\* leaves channels as they were and replies with the removal confirmation
\* (when config.json could be read and written).
C6_RemoveAbsentChangesNothing ==
    (AdminCommandWithArg(last, "/removechannel") /\ ~Includes(last.before.channels, ArgOf(last))) =>
        /\ config.channels = last.before.channels
        /\ last.reply = "removed" \/ last.threw # "none"

\* /removechannel c1 was confirmed on channels that held only c2
C6_Witness ==
    /\ AdminCommandWithArg(last, "/removechannel")
    /\ ArgOf(last) = "c1"
    /\ last.before.channels = <<"c2">>
    /\ last.reply = "removed"

\* index of x in s
IndexOf(s, x) == CHOOSE k \in DOMAIN s : s[k] = x

\* t keeps the members of s it still has in the order of s, and has every
\* new member after them
OrderKept(s, t) ==
    /\ \A x, y \in Range(s) \cap Range(t) :
          IndexOf(s, x) < IndexOf(s, y) <=> IndexOf(t, x) < IndexOf(t, y)
    /\ \A x \in Range(s) \cap Range(t), y \in Range(t) \ Range(s) :
          IndexOf(t, x) < IndexOf(t, y)

\* C7: channels never hold an identifier twice, and every step, of a command
\* or of a webhook request, keeps the identifiers that stay in the order they
\* had and puts an added identifier after them.
C7_NoDuplicatesOrderKept ==
    /\ [](NoDup(config.channels))
    /\ [][OrderKept(config.channels, config'.channels)]_vars

\* c1 was added behind c2 while a webhook request was being served
C7_Witness ==
    /\ AdminCommandWithArg(last, "/addchannel")
    /\ last.reply = "added"
    /\ last.before.channels = <<"c2">>
    /\ config.channels = <<"c2", "c1">>
    /\ \E r \in DOMAIN reqs : reqs[r].st \in {"raw", "fmt"}

\* C9 as stated: every handled command was answered.
C9_EveryCommandAnswered ==
    last # NoCmd => last.reply # "none"

\* an authorized addchannel update for an identifier channels do not hold
FreshAdd(u) ==
    /\ ~NotOnAllowList(u.from)
    /\ Split(u.text)[1] = "/addchannel"
    /\ Len(Split(u.text)) >= 2
    /\ ~Includes(config.channels, Split(u.text)[2])

\* the configuration the handler of update u leaves, run on cfg with the
\* store readable and writable
After(cfg, u) ==
    LET h == Handler(u.text, cfg) IN
    IF h.write.save THEN h.write.cfg ELSE cfg

\* C10 as stated: whenever two authorized addchannel updates for different
\* new identifiers are in flight together, their handlers can be scheduled
\* so that both reply "added" and one of the identifiers is missing from
\* channels afterwards.  A command handler is a synchronous function, so the
\* schedules of two handlers are the two orders of running one after the
\* other.
C10_LostUpdatePossible ==
    \A u1, u2 \in updates :
        (FreshAdd(u1) /\ FreshAdd(u2) /\ Split(u1.text)[2] # Split(u2.text)[2]) =>
            \E first \in {u1, u2} :
                LET second == IF first = u1 THEN u2 ELSE u1
                    mid == After(config, first)
                    end == After(mid, second)
                IN  /\ Handler(first.text, config).reply = "added"
                    /\ Handler(second.text, mid).reply = "added"
                    /\ \/ ~Includes(end.channels, Split(u1.text)[2])
                       \/ ~Includes(end.channels, Split(u2.text)[2])

\* C10 amended: an addchannel that replies "added" has appended its
\* identifier to the channels config.json held when it ran, keeping every
\* identifier added before it, also when the other addchannel was in flight
\* at the same time.
C10_AddKeepsEarlierAdds ==
    (AdminCommandWithArg(last, "/addchannel") /\ last.reply = "added") =>
        config.channels = Append(last.before.channels, ArgOf(last))

\* two addchannel updates were in flight together on empty channels: the
\* one received second has replied "added", the one received first, for
\* another identifier, is still waiting to be handled
C10_Witness ==
    /\ AdminCommandWithArg(last, "/addchannel")
    /\ last.reply = "added"
    /\ last.before.channels = <<>>
    /\ config.channels = <<"c2">>
    /\ \E u \in updates : u.id = 1 /\ FreshAdd(u) /\ Split(u.text)[2] = "c1"

-----------------------------------------------------------------------------
(* Properties of the webhook handlers of both files *)

\* the request has its HTTP response
Responded(q) == q.resp # NoResponse

\* C11: a webhook request is responded to (200 or 500) only when every send
\* it issued, raw, formatted or error notice, has settled, and it issues no
\* send after its response; in index.js and in part_000 alike.
C11_ResponseAfterSendsSettle ==
    /\ [](\A r \in DOMAIN reqs : Responded(reqs[r]) => reqs[r].pending = {})
    /\ [][\A r \in DOMAIN reqs :
            Responded(reqs[r]) => reqs'[r].log = reqs[r].log /\ reqs'[r].resp = reqs[r].resp]_vars

\* a request answered 500 after two raw sends and two error notices, all
\* four of them settled
C11_Witness ==
    \E r \in DOMAIN reqs :
        /\ reqs[r].resp = R500
        /\ Len(SendsOf(reqs[r], "raw")) = 2
        /\ Len(SendsOf(reqs[r], "err")) = 2
        /\ reqs[r].pending = {}

\* the request is suspended inside one of its broadcasts
InBroadcast(q) == q.st \in {"raw", "fmt", "err", "all"}

\* the kind of the sends of the broadcast the request is suspended in
BroadcastKind(q) == IF q.st = "all" THEN "fmt" ELSE q.st

\* C12 as stated: within a broadcast the send to a later channel does not
\* wait for the send to an earlier channel, so whenever a request is
\* suspended in a broadcast every send of that broadcast has been issued.
C12_SendsIssuedConcurrently ==
    \A r \in DOMAIN reqs :
        InBroadcast(reqs[r])
            => SendsOf(reqs[r], BroadcastKind(reqs[r])) = LoopChannels(reqs[r])

\* C12: in index.js every broadcast is sequential: while a request is
\* suspended in its raw, formatted or error loop exactly one of its sends is
\* pending, the one issued last; only the handler of part_000 issues the
\* sends of its one broadcast together.
C12_OneSendInFlight ==
    \A r \in DOMAIN reqs :
        /\ reqs[r].st \in {"raw", "fmt", "err"}
              => /\ reqs[r].pending = {Len(reqs[r].log)}
                 /\ IsPrefix(SendsOf(reqs[r], reqs[r].st), LoopChannels(reqs[r]))
                 /\ Len(SendsOf(reqs[r], reqs[r].st)) = reqs[r].i
        /\ reqs[r].st = "all"
              => SendsOf(reqs[r], "fmt") = reqs[r].cfg.channels

\* an index.js request to two channels whose first raw send is in flight
\* while the send to the second channel has not been issued
C12_Witness ==
    \E r \in DOMAIN reqs :
        /\ reqs[r].st = "raw"
        /\ Len(reqs[r].cfg.channels) = 2
        /\ Len(reqs[r].log) = 1
        /\ reqs[r].pending = {1}

-----------------------------------------------------------------------------
(* Properties of the webhook handler of index.js, continued *)

\* C13: a request in whose handling an exception was raised (getConfig
\* failing at line 121, or a TypeError while the formatted message is built)
\* is never answered 200; when the configuration can be loaded again it
\* sends one error notice to each configured channel, whether or not the
\* notices are accepted, and none when it cannot; then it is answered 500,
\* and until then it is suspended at an error notice.
C13_ExceptionEndsIn500 ==
    \A r \in DOMAIN reqs :
        reqs[r].exc # "none"
            => /\ reqs[r].resp.status # 200
               /\ reqs[r].reloaded => reqs[r].errCh = config.channels
               /\ ~reqs[r].reloaded => reqs[r].errCh = <<>>
               /\ IF Responded(reqs[r])
                  THEN /\ reqs[r].resp = R500
                       /\ SendsOf(reqs[r], "err") = reqs[r].errCh
                  ELSE /\ reqs[r].st = "err"
                       /\ IsPrefix(SendsOf(reqs[r], "err"), reqs[r].errCh)

\* getConfig failed at line 121; both error notices were rejected and the
\* request was answered 500
C13_Witness ==
    \E r \in DOMAIN reqs :
        /\ reqs[r].exc = "ConfigUnreadable"
        /\ reqs[r].resp = R500
        /\ Len(SendsOf(reqs[r], "err")) = 2
        /\ reqs[r].fails = 2

\* C14: when every send in flight settles in the end, every webhook request
\* that arrived gets an HTTP response in the end, and the response it got
\* is never replaced by another, whatever the body, the channels and the
\* commands handled meanwhile.
C14_EveryRequestAnsweredOnce ==
    /\ \A r \in 1..MaxReqs :
           [](r \in DOMAIN reqs => <>(r \in DOMAIN reqs /\ Responded(reqs[r])))
    /\ [][\A r \in DOMAIN reqs :
            Responded(reqs[r]) => reqs'[r].resp = reqs[r].resp]_vars

\* a request answered after four sends, a channel having been removed by a
\* command since the request loaded its configuration
C14_Witness ==
    \E r \in DOMAIN reqs :
        /\ Responded(reqs[r])
        /\ Len(reqs[r].log) = 4
        /\ last.reply = "removed"
        /\ reqs[r].cfg = last.before
        /\ config # reqs[r].cfg

-----------------------------------------------------------------------------
(* Properties of the command handlers, continued *)

\* C15: /addchannel or /removechannel sent by an admin with nothing after
\* the command name is answered by the usage hint; the handler ends
\* there, without an exception from the store, and config.json is as it was.
C15_MissingArgumentIsUsage ==
    (/\ last # NoCmd
     /\ ~NotOnAllowList(last.from)
     /\ last.text \in {<<"/addchannel">>, <<"/removechannel">>})
        => /\ last.reply = "usage"
           /\ last.threw = "none"
           /\ config = last.before

\* /removechannel alone, from an admin, while channels are configured
C15_Witness ==
    /\ last.text = <<"/removechannel">>
    /\ last.reply = "usage"
    /\ Len(config.channels) = 2

\* C17: no identifier in channels is the empty string, the configuration
\* having started with non-empty identifiers only.
C17_NoEmptyChannelId ==
    \A k \in DOMAIN config.channels : config.channels[k] # ""

-----------------------------------------------------------------------------
(* Properties of the payload handling of index.js *)

\* the body is text that does not decode, or it decodes to (or is) something
\* that is no key-value mapping
NotStructured(body) == ~IsMapping(body)

\* C16: an answered request with enabled = true whose body is not valid
\* structured data has sent the raw message to each channel, no formatted
\* message and no error notice, and is answered 200.
C16_MalformedIsRawOnly ==
    \A r \in DOMAIN reqs :
        (Enabled(reqs[r]) /\ Responded(reqs[r]) /\ NotStructured(reqs[r].body))
            => /\ SendsOf(reqs[r], "raw") = reqs[r].cfg.channels
               /\ SendsOf(reqs[r], "fmt") = <<>>
               /\ SendsOf(reqs[r], "err") = <<>>
               /\ reqs[r].resp = R200Sent(Len(reqs[r].cfg.channels))

\* the request has sent a formatted message
Formatted(q) == Len(SendsOf(q, "fmt")) > 0

\* the value of direction in the payload, when it is a non-empty string
HasDirection(body) ==
    /\ IsMapping(body)
    /\ "direction" \in DOMAIN MappingOf(body)
    /\ MappingOf(body)["direction"].t = "str"
    /\ MappingOf(body)["direction"].s # <<>>
DirectionOf(body) == MappingOf(body)["direction"].s

\* word occurs in the uppercase of the direction of the payload
Says(body, word) ==
    LET up == toUpperCase(DirectionOf(body)) IN
    \E k \in 0..Len(up) :
        /\ k + Len(word) <= Len(up)
        /\ \A j \in DOMAIN word : up[k + j] = word[j]

\* C18 as stated: the formatted message shows Buy for a direction whose
\* uppercase contains BUY, Sell for one that contains SELL and not BUY, any
\* other direction as it was sent, and Signal when there is none.
C18_DirectionAsNormalised ==
    \A r \in DOMAIN reqs :
        Formatted(reqs[r]) =>
            reqs[r].shown =
                IF ~HasDirection(reqs[r].body) THEN <<"S", "i", "g", "n", "a", "l">>
                ELSE IF Says(reqs[r].body, <<"B", "U", "Y">>) THEN <<"B", "u", "y">>
                ELSE IF Says(reqs[r].body, <<"S", "E", "L", "L">>) THEN <<"S", "e", "l", "l">>
                ELSE DirectionOf(reqs[r].body)

\* C18: the formatted message shows the direction in uppercase: BUY for a
\* direction whose uppercase contains BUY, SELL for one that contains SELL
\* and not BUY, the uppercase of any other direction, and SIGNAL when the
\* payload has no direction or an empty one.
C18_DirectionInUpperCase ==
    \A r \in DOMAIN reqs :
        Formatted(reqs[r]) =>
            reqs[r].shown =
                IF ~HasDirection(reqs[r].body) THEN <<"S", "I", "G", "N", "A", "L">>
                ELSE IF Says(reqs[r].body, <<"B", "U", "Y">>) THEN <<"B", "U", "Y">>
                ELSE IF Says(reqs[r].body, <<"S", "E", "L", "L">>) THEN <<"S", "E", "L", "L">>
                ELSE toUpperCase(DirectionOf(reqs[r].body))

\* a formatted message sent for the direction x.l, which it shows as X.L
C18_Witness ==
    \E r \in DOMAIN reqs :
        /\ Formatted(reqs[r])
        /\ HasDirection(reqs[r].body)
        /\ DirectionOf(reqs[r].body) = <<"x", ".", "l">>
        /\ reqs[r].shown = <<"X", ".", "L">>

-----------------------------------------------------------------------------
(* Properties of commands and webhook requests together *)

\* C19: a webhook request works on the configuration it loaded at line 121:
\* its raw and its formatted sends go to the channels of that configuration,
\* in their order, and when it is answered 200 after the broadcast it has
\* sent to each of them and reports their number, whatever the commands
\* handled since have made of config.json.
C19_RequestKeepsItsSnapshot ==
    \A r \in DOMAIN reqs :
        Enabled(reqs[r]) =>
            /\ IsPrefix(SendsOf(reqs[r], "raw"), reqs[r].cfg.channels)
            /\ IsPrefix(SendsOf(reqs[r], "fmt"), reqs[r].cfg.channels)
            /\ reqs[r].st \in {"fmt", "err"}
                  => SendsOf(reqs[r], "raw") = reqs[r].cfg.channels
            /\ reqs[r].resp.status = 200
                  => /\ SendsOf(reqs[r], "raw") = reqs[r].cfg.channels
                     /\ SendsOf(reqs[r], "fmt") \in {<<>>, reqs[r].cfg.channels}
                     /\ reqs[r].resp = R200Sent(Len(reqs[r].cfg.channels))

\* the formatted message to c2 is in flight although /removechannel c2 has
\* been handled since the request loaded c1 and c2
C19_Witness ==
    \E r \in DOMAIN reqs :
        /\ reqs[r].st = "fmt"
        /\ reqs[r].i = 2
        /\ reqs[r].cfg.channels = <<"c1", "c2">>
        /\ last.reply = "removed"
        /\ last.before = reqs[r].cfg
        /\ config.channels = <<"c1">>

\* the command handled last, when its handler ran to its reply
Handled(name) ==
    /\ last # NoCmd
    /\ last.invoked
    /\ last.threw = "none"
    /\ Split(last.text)[1] = name

\* C20: /on and /off leave channels as they were and /addchannel and
\* /removechannel leave enabled as it was; /list leaves config.json as it
\* was, and so does every step of a webhook request, whichever response it
\* ends by.
C20_FrameConditions ==
    /\ []((Handled("/on") \/ Handled("/off")) => config.channels = last.before.channels)
    /\ []((Handled("/addchannel") \/ Handled("/removechannel"))
            => config.enabled = last.before.enabled)
    /\ [](Handled("/list") => config = last.before)
    /\ [][reqs' # reqs => config' = config]_vars

\* /off handled while channels are configured and a request has been answered
C20_Witness ==
    /\ Handled("/off")
    /\ last.before.enabled
    /\ ~config.enabled
    /\ Len(config.channels) = 2
    /\ \E r \in DOMAIN reqs : reqs[r].resp.status = 500

====
